---- MODULE Spec2Model ----
(***************************************************************************)
(* betteruptime-heartbeat (src/src/lib.rs): the configuration resolver     *)
(* HeartbeatConfig::from_env, the entry points spawn_from_env and spawn,   *)
(* and the background task heartbeat_loop.                                 *)
(*                                                                         *)
(* Strings are sequences of one-character strings, so that trim and parse  *)
(* are computed character by character as the library does.                *)
(* Time is counted in whole seconds (the unit of interval_secs and         *)
(* timeout_secs).                                                          *)
(***************************************************************************)
EXTENDS Integers, Sequences, FiniteSets, TLC

VARIABLES
    env,        \* the process environment: variable name -> Result<String, VarError>
    resolved,   \* what the latest call of HeartbeatConfig::from_env returned
    ret,        \* what the latest call of spawn_from_env returned, if any
    host,       \* the host process: its status and the calls it has completed
    loops,      \* the spawned heartbeat_loop tasks, in spawn order
    wire,       \* the number of HTTP GETs put on the network so far
    now         \* the clock, in seconds

vars == <<env, resolved, ret, host, loops, wire, now>>

----------------------------------------------------------------------------
(* Bounds                                                                  *)

\* longest HEARTBEAT_URL value enumerated for the resolver
MaxUrlLen == 2
\* longest HEARTBEAT_INTERVAL_SECS / HEARTBEAT_TIMEOUT_SECS value enumerated
MaxNumLen == 2
\* the clock stops advancing here
MaxTime == 4
\* how many entry-point calls the host makes
MaxCalls == 1
\* calls of the entry points and seconds of the clock where the host calls
\* them repeatedly
MaxTasks == 2
MaxTimeAgain == 2

----------------------------------------------------------------------------
(* The environment: std::env::var                                          *)

URL_VAR == "HEARTBEAT_URL"
INTERVAL_VAR == "HEARTBEAT_INTERVAL_SECS"
TIMEOUT_VAR == "HEARTBEAT_TIMEOUT_SECS"

\* std::env::var's three results: Err(NotPresent), Err(NotUnicode(_)), Ok(s)
NotPresent == [kind |-> "NotPresent", val |-> <<>>]
NotUnicode == [kind |-> "NotUnicode", val |-> <<>>]
OkVar(s) == [kind |-> "Ok", val |-> s]

env_var(e, name) == e[name]

\* Result::ok / Option as a record; v is meaningful only when some
NoneStr == [some |-> FALSE, v |-> <<>>]
SomeStr(s) == [some |-> TRUE, v |-> s]
ok(r) == IF r.kind = "Ok" THEN SomeStr(r.val) ELSE NoneStr

----------------------------------------------------------------------------
(* str::trim, str::is_empty, u64::from_str                                 *)

\* the White_Space characters among those enumerated
WhiteSpace == {" ", "\t", "\n"}

RECURSIVE trim_start(_)
trim_start(s) ==
    IF s # <<>> /\ Head(s) \in WhiteSpace THEN trim_start(Tail(s)) ELSE s

RECURSIVE trim_end(_)
trim_end(s) ==
    IF s # <<>> /\ s[Len(s)] \in WhiteSpace
    THEN trim_end(SubSeq(s, 1, Len(s) - 1))
    ELSE s

trim(s) == trim_end(trim_start(s))

is_empty(s) == Len(s) = 0

Digits == {"0", "1", "2", "3", "4", "5", "6", "7", "8", "9"}

to_digit(c) ==
    CASE c = "0" -> 0 [] c = "1" -> 1 [] c = "2" -> 2 [] c = "3" -> 3
      [] c = "4" -> 4 [] c = "5" -> 5 [] c = "6" -> 6 [] c = "7" -> 7
      [] c = "8" -> 8 [] c = "9" -> 9

\* Result<u64, ParseIntError>; val is meaningful only when ok
ParseErr == [ok |-> FALSE, val |-> 0]
ParseOk(n) == [ok |-> TRUE, val |-> n]

RECURSIVE accumulate(_, _)
accumulate(acc, ds) ==
    IF ds = <<>> THEN acc ELSE accumulate(acc * 10 + to_digit(Head(ds)), Tail(ds))

\* u64::from_str: "" is Empty; "+" and "-" alone are InvalidDigit; one leading
\* "+" is dropped; "-" is not a sign of an unsigned type; no trimming; every
\* remaining character must be a digit. The values enumerated have at most
\* MaxNumLen digits, far below 2^64, so PosOverflow (also an Err, and so the
\* same fallback) is out of reach.
parse_u64(s) ==
    IF s = <<>> THEN ParseErr
    ELSE IF Len(s) = 1 /\ s[1] \in {"+", "-"} THEN ParseErr
    ELSE LET ds == IF s[1] = "+" THEN Tail(s) ELSE s
         IN  IF \A i \in 1..Len(ds) : ds[i] \in Digits
             THEN ParseOk(accumulate(0, ds))
             ELSE ParseErr

\* .ok().and_then(|s| s.parse().ok()).unwrap_or(d)
parse_or(r, d) ==
    LET o == ok(r)
    IN  IF o.some /\ parse_u64(o.v).ok THEN parse_u64(o.v).val ELSE d

----------------------------------------------------------------------------
(* HeartbeatConfig and HeartbeatConfig::from_env                           *)

DEFAULT_INTERVAL_SECS == 60
DEFAULT_TIMEOUT_SECS == 10

HeartbeatConfig(u, i, t) == [url |-> u, interval_secs |-> i, timeout_secs |-> t]

\* Option<HeartbeatConfig>; cfg is meaningful only when some
NoConfig == [some |-> FALSE, cfg |-> HeartbeatConfig(<<>>, 0, 0)]
SomeConfig(c) == [some |-> TRUE, cfg |-> c]

\* from_env with the blank test on the raw value (no trim)
from_env_untrimmed(e) ==
    LET url == ok(env_var(e, URL_VAR))
    IN  IF ~url.some THEN NoConfig
        ELSE IF is_empty(url.v) THEN NoConfig
        ELSE SomeConfig(HeartbeatConfig(
                url.v,
                parse_or(env_var(e, INTERVAL_VAR), DEFAULT_INTERVAL_SECS),
                parse_or(env_var(e, TIMEOUT_VAR), DEFAULT_TIMEOUT_SECS)))

\* from_env giving up on an interval that does not parse (`?` instead of
\* unwrap_or)
from_env_strict(e) ==
    LET url == ok(env_var(e, URL_VAR))
        i == ok(env_var(e, INTERVAL_VAR))
    IN  IF ~url.some THEN NoConfig
        ELSE IF is_empty(trim(url.v)) THEN NoConfig
        ELSE IF i.some /\ ~parse_u64(i.v).ok THEN NoConfig
        ELSE SomeConfig(HeartbeatConfig(
                url.v,
                parse_or(env_var(e, INTERVAL_VAR), DEFAULT_INTERVAL_SECS),
                parse_or(env_var(e, TIMEOUT_VAR), DEFAULT_TIMEOUT_SECS)))

\* from_env reading the two numeric variables the wrong way round
from_env_swapped(e) ==
    LET url == ok(env_var(e, URL_VAR))
    IN  IF ~url.some THEN NoConfig
        ELSE IF is_empty(trim(url.v)) THEN NoConfig
        ELSE SomeConfig(HeartbeatConfig(
                url.v,
                parse_or(env_var(e, TIMEOUT_VAR), DEFAULT_INTERVAL_SECS),
                parse_or(env_var(e, INTERVAL_VAR), DEFAULT_TIMEOUT_SECS)))

from_env(e) ==
    LET url == ok(env_var(e, URL_VAR))
    IN  IF ~url.some THEN NoConfig
        ELSE IF is_empty(trim(url.v)) THEN NoConfig
        ELSE SomeConfig(HeartbeatConfig(
                url.v,
                parse_or(env_var(e, INTERVAL_VAR), DEFAULT_INTERVAL_SECS),
                parse_or(env_var(e, TIMEOUT_VAR), DEFAULT_TIMEOUT_SECS)))

----------------------------------------------------------------------------
(* The heartbeat_loop task                                                 *)

\* reqwest's result of client.get(url).send().await, as the match of the loop
\* tells them apart: Ok with a 2xx status, Ok with another status, Err (a
\* transport failure; the client's timeout elapsing is one of them)
Results == {"Ok2xx", "OkNon2xx", "ErrTransport", "ErrTimeout"}

NoTimeout == -1
NoTime == -1

\* the task tokio::spawn creates: it owns the config and has not run yet
new_task(c) ==
    [cfg |-> c,
     pc |-> "Spawned",
     client_timeout |-> NoTimeout,  \* the timeout the built client applies
     created |-> NoTime,            \* when tokio::time::interval was called
     deadline |-> NoTime,           \* the timer's next tick
     ticks |-> 0,                   \* ticks consumed
     gets |-> 0,                    \* GETs started
     inflight |-> 0,                \* GETs started and not completed
     sentAt |-> NoTime,             \* when the latest GET was started
     sentTo |-> <<>>,               \* the url of the latest GET
     last |-> "none",               \* the latest result of send()
     overran |-> FALSE,             \* a ping has ended after the next tick was due
     log |-> "none"]                \* the level of the latest log line of the task

\* start with a client built without .timeout(..)
start_no_timeout(l, t, built) ==
    IF ~built
    THEN [l EXCEPT !.pc = "Terminated", !.log = "error"]
    ELSE IF l.cfg.interval_secs = 0
    THEN [l EXCEPT !.pc = "Panicked"]
    ELSE [l EXCEPT !.pc = "FirstTick", !.created = t, !.deadline = t]

\* start entering the loop at once, the first tick not awaited separately
start_armed(l, t, built) ==
    IF ~built
    THEN [l EXCEPT !.pc = "Terminated", !.log = "error"]
    ELSE IF l.cfg.interval_secs = 0
    THEN [l EXCEPT !.pc = "Panicked", !.client_timeout = l.cfg.timeout_secs]
    ELSE [l EXCEPT !.pc = "Armed",
                   !.client_timeout = l.cfg.timeout_secs,
                   !.created = t,
                   !.deadline = t]

\* lines 174-185: build the client with the configured timeout; on Err log at
\* error level and return. Then create the timer: tokio::time::interval panics
\* ("`period` must be non-zero") when the period is zero, which ends the task;
\* otherwise its first tick is due at once.
start(l, t, built) ==
    IF ~built
    THEN [l EXCEPT !.pc = "Terminated", !.log = "error"]
    ELSE IF l.cfg.interval_secs = 0
    THEN [l EXCEPT !.pc = "Panicked", !.client_timeout = l.cfg.timeout_secs]
    ELSE [l EXCEPT !.pc = "FirstTick",
                   !.client_timeout = l.cfg.timeout_secs,
                   !.created = t,
                   !.deadline = t]

\* Interval::tick with the default MissedTickBehavior::Burst: completes once
\* the deadline is reached, and the next deadline is the previous deadline
\* plus the period, also when that lies in the past
tick_due(l, t) == l.deadline # NoTime /\ t >= l.deadline

next_deadline(l) == l.deadline + l.cfg.interval_secs

\* the loop entered without consuming the first, immediate tick
first_tick_kept(l, t) == [l EXCEPT !.pc = "Armed"]

\* line 188: the first tick is consumed without a ping
first_tick(l, t) ==
    [l EXCEPT !.pc = "Armed", !.deadline = next_deadline(l), !.ticks = l.ticks + 1]

\* the GET started without being awaited
tick_and_send_detached(l, t) ==
    [l EXCEPT !.deadline = next_deadline(l),
              !.ticks = l.ticks + 1,
              !.gets = l.gets + 1,
              !.inflight = l.inflight + 1,
              !.sentAt = t,
              !.sentTo = l.cfg.url]

\* the url read from the environment again at every ping
tick_and_send_env_url(l, t) ==
    [l EXCEPT !.pc = "Pinging",
              !.deadline = next_deadline(l),
              !.ticks = l.ticks + 1,
              !.gets = l.gets + 1,
              !.inflight = l.inflight + 1,
              !.sentAt = t,
              !.sentTo = IF ok(env_var(env, URL_VAR)).some
                         THEN ok(env_var(env, URL_VAR)).v
                         ELSE l.cfg.url]

\* lines 191-193: a tick is consumed, then the GET is started and awaited
tick_and_send(l, t) ==
    [l EXCEPT !.pc = "Pinging",
              !.deadline = next_deadline(l),
              !.ticks = l.ticks + 1,
              !.gets = l.gets + 1,
              !.inflight = l.inflight + 1,
              !.sentAt = t,
              !.sentTo = l.cfg.url]

\* the client's timeout has elapsed for the request in flight
request_expired(l, t) ==
    l.client_timeout # NoTimeout /\ t >= l.sentAt + l.client_timeout

\* what send() can resolve to at time t: the timeout error once the timeout
\* has elapsed, anything else before
possible_results(l, t) ==
    IF request_expired(l, t) THEN {"ErrTimeout"} ELSE Results \ {"ErrTimeout"}

\* lines 194-207: the match on the result; every arm logs and falls through
\* to the next iteration of the loop
log_level(res) == IF res = "Ok2xx" THEN "debug" ELSE "warn"

\* the Err arm returning from the loop
complete_or_return(l, t, res) ==
    [l EXCEPT !.pc = IF res \in {"ErrTransport", "ErrTimeout"} THEN "Terminated" ELSE "Armed",
              !.inflight = l.inflight - 1,
              !.last = res,
              !.overran = l.overran \/ t > l.deadline,
              !.log = log_level(res)]

\* the loop waiting a full interval after each ping (a sleep in place of the
\* periodic timer)
complete_then_sleep(l, t, res) ==
    [l EXCEPT !.pc = "Armed",
              !.inflight = l.inflight - 1,
              !.deadline = t + l.cfg.interval_secs,
              !.last = res,
              !.overran = l.overran \/ t > l.deadline,
              !.log = log_level(res)]

complete(l, t, res) ==
    [l EXCEPT !.pc = "Armed",
              !.inflight = l.inflight - 1,
              !.last = res,
              !.overran = l.overran \/ t > l.deadline,
              !.log = log_level(res)]

\* the task is waiting on a timer that has expired: it runs before the clock
\* moves on
timer_due(l, t) ==
    \/ l.pc \in {"FirstTick", "Armed"} /\ tick_due(l, t)
    \/ l.pc = "Pinging" /\ request_expired(l, t)

----------------------------------------------------------------------------
(* The entry points                                                        *)

\* lines 157-167: log, tokio::spawn the loop with the config, drop the
\* JoinHandle and return
\* an entry point that does nothing while a task exists
spawn_guarded(ls, c) == IF ls # <<>> THEN ls ELSE Append(ls, new_task(c))

spawn(ls, c) == Append(ls, new_task(c))

\* spawn_from_env answering true on both arms
spawn_from_env_true(e, ls) ==
    LET r == from_env(e)
    IN  IF r.some
        THEN [ret |-> TRUE, loops |-> spawn(ls, r.cfg)]
        ELSE [ret |-> TRUE, loops |-> ls]

\* the return value also asking for a timeout variable that is set
spawn_from_env_timeout_set(e, ls) ==
    LET r == from_env(e)
    IN  IF r.some
        THEN [ret |-> env_var(e, TIMEOUT_VAR).kind = "Ok", loops |-> spawn(ls, r.cfg)]
        ELSE [ret |-> FALSE, loops |-> ls]

\* lines 123-134
spawn_from_env(e, ls) ==
    LET r == from_env(e)
    IN  IF r.some
        THEN [ret |-> TRUE, loops |-> spawn(ls, r.cfg)]
        ELSE [ret |-> FALSE, loops |-> ls]

\* the end of the task taking the process down with it
host_after_exit(h, event) ==
    IF event \in {"Terminated", "Panicked"} THEN [h EXCEPT !.status = "stopped"] ELSE h

\* lines 164-166: the JoinHandle is dropped, so neither the task's return nor
\* its panic (caught by the runtime at the task boundary) reaches the host
host_after(h, event) == h

host_called(h, what) == [h EXCEPT !.calls = h.calls + 1, !.last = what]

----------------------------------------------------------------------------
(* Initial states                                                          *)

Strings(chars, n) == UNION {[1..k -> chars] : k \in 0..n}

UrlChars == {" ", "a"}
NumChars == {"0", "1", "+", "-", "a", " "}

EnvValues(chars, n) == {NotPresent, NotUnicode} \cup {OkVar(s) : s \in Strings(chars, n)}

Env(u, i, t) ==
    [HEARTBEAT_URL |-> u, HEARTBEAT_INTERVAL_SECS |-> i, HEARTBEAT_TIMEOUT_SECS |-> t]

\* the values the host of the loop finds in its environment
HostUrls == {NotPresent, OkVar(<<" ">>), OkVar(<<"a">>)}
HostIntervals == {OkVar(<<"0">>), OkVar(<<"1">>)}
HostTimeouts == {NotPresent, OkVar(<<"1">>)}

\* the configs the host passes to spawn
SpawnConfigs ==
    {HeartbeatConfig(<<"a">>, i, t) : i \in {0, 1, 2}, t \in {0, 3}}

\* the configs passed to spawn while other tasks run
AgainConfigs == {HeartbeatConfig(<<"b">>, i, 2) : i \in {0, 1}}

NotCalled == [some |-> FALSE, cfg |-> HeartbeatConfig(<<>>, 0, 0), called |-> FALSE]
Returned(r) == [some |-> r.some, cfg |-> r.cfg, called |-> TRUE]

\* wireAtSetEnv: the GETs sent when the environment was last changed
NotSet == -1
InitHost == [status |-> "running", calls |-> 0, last |-> "none", wireAtSetEnv |-> NotSet]

InitRest ==
    /\ resolved = NotCalled
    /\ ret = [called |-> FALSE, value |-> FALSE]
    /\ host = InitHost
    /\ loops = <<>>
    /\ wire = 0
    /\ now = 0

Init ==
    /\ \E u \in HostUrls, i \in HostIntervals, t \in HostTimeouts : env = Env(u, i, t)
    /\ InitRest

\* one environment with all three variables set, for the fair runs
InitFair ==
    /\ env = Env(OkVar(<<"a">>), OkVar(<<"1">>), OkVar(<<"1">>))
    /\ InitRest

\* the states in which spawn_from_env has just returned true
InitSpawned ==
    /\ \E u \in HostUrls, i \in HostIntervals, t \in HostTimeouts : env = Env(u, i, t)
    /\ from_env(env).some
    /\ resolved = Returned(from_env(env))
    /\ ret = [called |-> TRUE, value |-> spawn_from_env(env, <<>>).ret]
    /\ host = host_called(InitHost, "spawn_from_env")
    /\ loops = spawn_from_env(env, <<>>).loops
    /\ wire = 0
    /\ now = 0

\* every environment the resolver is checked on
InitResolver ==
    /\ \E u \in EnvValues(UrlChars, MaxUrlLen),
          i \in EnvValues(NumChars, MaxNumLen),
          t \in EnvValues(NumChars, MaxNumLen) : env = Env(u, i, t)
    /\ InitRest

----------------------------------------------------------------------------
(* Actions                                                                 *)

\* the host calls HeartbeatConfig::from_env()
FromEnv ==
    /\ ~resolved.called
    /\ resolved' = Returned(from_env(env))
    /\ UNCHANGED <<env, ret, host, loops, wire, now>>

\* the host calls spawn_from_env(), from within a Tokio runtime as tokio::spawn
\* requires; the call reads the environment, spawns and returns in one step
SpawnFromEnvCall(n) ==
    /\ host.status = "running"
    /\ host.calls < n
    /\ LET r == spawn_from_env(env, loops)
       IN  /\ ret' = [called |-> TRUE, value |-> r.ret]
           /\ loops' = r.loops
    /\ resolved' = Returned(from_env(env))
    /\ host' = host_called(host, "spawn_from_env")
    /\ UNCHANGED <<env, wire, now>>

SpawnFromEnv == SpawnFromEnvCall(MaxCalls)

\* the host calls spawn(config)
SpawnCall(n, configs) ==
    /\ host.status = "running"
    /\ host.calls < n
    /\ \E c \in configs : loops' = spawn(loops, c)
    /\ host' = host_called(host, "spawn")
    /\ UNCHANGED <<env, resolved, ret, wire, now>>

Spawn == SpawnCall(MaxCalls, SpawnConfigs)

\* the runtime polls task i for the first time
Start(i) ==
    /\ loops[i].pc = "Spawned"
    /\ \E built \in BOOLEAN :
          /\ loops' = [loops EXCEPT ![i] = start(loops[i], now, built)]
          /\ host' = host_after(host, loops'[i].pc)
    /\ UNCHANGED <<env, resolved, ret, wire, now>>

FirstTick(i) ==
    /\ loops[i].pc = "FirstTick"
    /\ tick_due(loops[i], now)
    /\ loops' = [loops EXCEPT ![i] = first_tick(loops[i], now)]
    /\ host' = host_after(host, "tick")
    /\ UNCHANGED <<env, resolved, ret, wire, now>>

TickAndSend(i) ==
    /\ loops[i].pc = "Armed"
    /\ tick_due(loops[i], now)
    /\ loops' = [loops EXCEPT ![i] = tick_and_send(loops[i], now)]
    /\ wire' = wire + 1
    /\ host' = host_after(host, "send")
    /\ UNCHANGED <<env, resolved, ret, now>>

Complete(i) ==
    /\ loops[i].pc = "Pinging"
    /\ \E res \in possible_results(loops[i], now) :
          /\ loops' = [loops EXCEPT ![i] = complete(loops[i], now, res)]
          /\ host' = host_after(host, res)
    /\ UNCHANGED <<env, resolved, ret, wire, now>>

\* a second passes; an expired timer of a waiting task fires first
AdvanceTo(horizon) ==
    /\ now < horizon
    /\ \A i \in 1..Len(loops) : ~timer_due(loops[i], now)
    /\ now' = now + 1
    /\ UNCHANGED <<env, resolved, ret, host, loops, wire>>

Advance == AdvanceTo(MaxTime)

\* what std::env::set_var / remove_var leave in a variable
SetValues(name) ==
    CASE name = URL_VAR -> {NotPresent, OkVar(<<"b">>)}
      [] name = INTERVAL_VAR -> {NotPresent, OkVar(<<"2">>)}
      [] name = TIMEOUT_VAR -> {NotPresent, OkVar(<<"3">>)}

\* the host sets or removes one of the three variables
SetEnv ==
    /\ host.status = "running"
    /\ \E name \in {URL_VAR, INTERVAL_VAR, TIMEOUT_VAR} :
          \E v \in SetValues(name) :
             /\ env[name] # v
             /\ env' = [env EXCEPT ![name] = v]
    /\ host' = [host EXCEPT !.wireAtSetEnv = wire]
    /\ UNCHANGED <<resolved, ret, loops, wire, now>>

LoopStep(i) ==
    /\ i <= Len(loops)
    /\ (Start(i) \/ FirstTick(i) \/ TickAndSend(i) \/ Complete(i))

Next ==
    \/ SpawnFromEnv
    \/ Spawn
    \/ \E i \in 1..Len(loops) : Start(i)
    \/ \E i \in 1..Len(loops) : FirstTick(i)
    \/ \E i \in 1..Len(loops) : TickAndSend(i)
    \/ \E i \in 1..Len(loops) : Complete(i)
    \/ Advance

Spec == Init /\ [][Next]_vars

\* the runtime polls a task that can run, and the clock advances
FairSpec ==
    /\ InitFair
    /\ [][Next]_vars
    /\ WF_vars(Advance)
    /\ \A i \in 1..MaxCalls : WF_vars(LoopStep(i))

\* a task spawned by spawn_from_env, and a host that goes on to change the
\* environment
NextSetEnv ==
    \/ SetEnv
    \/ \E i \in 1..Len(loops) : Start(i)
    \/ \E i \in 1..Len(loops) : FirstTick(i)
    \/ \E i \in 1..Len(loops) : TickAndSend(i)
    \/ \E i \in 1..Len(loops) : Complete(i)
    \/ Advance

SpecSetEnv == InitSpawned /\ [][NextSetEnv]_vars

\* a host that calls the entry points again while tasks are running
SpawnFromEnvAgain == SpawnFromEnvCall(MaxTasks)

SpawnAgain == SpawnCall(MaxTasks, AgainConfigs)

AdvanceAgain == AdvanceTo(MaxTimeAgain)

NextAgain ==
    \/ SpawnFromEnvAgain
    \/ SpawnAgain
    \/ \E i \in 1..Len(loops) : Start(i)
    \/ \E i \in 1..Len(loops) : FirstTick(i)
    \/ \E i \in 1..Len(loops) : TickAndSend(i)
    \/ \E i \in 1..Len(loops) : Complete(i)
    \/ AdvanceAgain

SpecAgain == InitFair /\ [][NextAgain]_vars

NextResolver == FromEnv

SpecResolver == InitResolver /\ [][NextResolver]_vars

----------------------------------------------------------------------------
(* Properties of the resolver (checked under SpecResolver)                 *)

\* a string with no character other than white space (the empty one included)
Blank(s) == \A k \in 1..Len(s) : s[k] \in WhiteSpace

UrlVar == env[URL_VAR]
IntervalVar == env[INTERVAL_VAR]
TimeoutVar == env[TIMEOUT_VAR]

UrlUsable == UrlVar.kind = "Ok" /\ ~Blank(UrlVar.val)
Parses(r) == r.kind = "Ok" /\ parse_u64(r.val).ok

\* C1 as stated: from_env returns None exactly when HEARTBEAT_URL is absent,
\* empty or whitespace-only, and a config for every other value of it.
C1_NoneIffAbsentOrBlank ==
    resolved.called =>
        (~resolved.some <=>
            (UrlVar.kind = "NotPresent" \/ (UrlVar.kind = "Ok" /\ Blank(UrlVar.val))))

\* C1 amended: from_env returns None exactly when HEARTBEAT_URL is absent, is
\* not valid Unicode, or is empty or whitespace-only; it returns a config for
\* every other value, whatever the interval and timeout variables contain.
C1_NoneIffUnreadableOrBlank ==
    resolved.called =>
        (~resolved.some <=>
            (UrlVar.kind \in {"NotPresent", "NotUnicode"}
                \/ (UrlVar.kind = "Ok" /\ Blank(UrlVar.val))))

C1_Witness ==
    /\ resolved.called
    /\ ~resolved.some
    /\ UrlVar = OkVar(<<" ", " ">>)
    /\ Parses(IntervalVar)

\* C3: with a usable URL from_env yields a config whatever the two numeric
\* variables hold; interval_secs is 60 when HEARTBEAT_INTERVAL_SECS is absent
\* or does not parse, timeout_secs is 10 when HEARTBEAT_TIMEOUT_SECS is absent
\* or does not parse, each whatever the other variable holds.
C3_FallbackPerField ==
    (resolved.called /\ UrlUsable) =>
        /\ resolved.some
        /\ ~Parses(IntervalVar) => resolved.cfg.interval_secs = 60
        /\ ~Parses(TimeoutVar) => resolved.cfg.timeout_secs = 10

C3_Witness ==
    /\ resolved.called
    /\ UrlUsable
    /\ IntervalVar = OkVar(<<"a">>)
    /\ TimeoutVar = OkVar(<<"1">>)
    /\ resolved.some
    /\ resolved.cfg.interval_secs = 60
    /\ resolved.cfg.timeout_secs = 1

\* C4: with a usable URL and two numeric variables that parse, from_env yields
\* the URL exactly as supplied, the parsed interval as interval_secs and the
\* parsed timeout as timeout_secs.
C4_ExactConfig ==
    (resolved.called /\ UrlUsable /\ Parses(IntervalVar) /\ Parses(TimeoutVar)) =>
        /\ resolved.some
        /\ resolved.cfg.url = UrlVar.val
        /\ resolved.cfg.interval_secs = parse_u64(IntervalVar.val).val
        /\ resolved.cfg.timeout_secs = parse_u64(TimeoutVar.val).val

C4_Witness ==
    /\ resolved.called
    /\ UrlVar = OkVar(<<" ", "a">>)
    /\ IntervalVar = OkVar(<<"1", "0">>)
    /\ TimeoutVar = OkVar(<<"+", "1">>)
    /\ resolved.some
    /\ resolved.cfg = HeartbeatConfig(<<" ", "a">>, 10, 1)

\* C5 as stated: every config from_env yields has interval_secs >= 1 and
\* timeout_secs >= 1.
C5_PositiveSeconds ==
    (resolved.called /\ resolved.some) =>
        /\ resolved.cfg.interval_secs >= 1
        /\ resolved.cfg.timeout_secs >= 1

----------------------------------------------------------------------------
(* Properties of the entry points and of the loop                          *)

Tasks == 1..Len(loops)
Failures == {"OkNon2xx", "ErrTransport", "ErrTimeout"}

HostCall == host'.calls = host.calls + 1
EnvCall == HostCall /\ host'.last = "spawn_from_env"

\* C2: a call of spawn_from_env returns true exactly when from_env yields a
\* config; returning false it adds no task and sends nothing, returning true
\* it adds exactly one task, not yet run, holding the resolved config; and no
\* GET is on the network while no task exists.
C2_SpawnFromEnv ==
    /\ [][EnvCall =>
            /\ resolved'.called
            /\ ret'.called
            /\ ret'.value = resolved'.some
            /\ wire' = wire
            /\ ~ret'.value => loops' = loops
            /\ ret'.value => loops' = Append(loops, new_task(resolved'.cfg))]_vars
    /\ [](loops = <<>> => wire = 0)

C2_Witness ==
    /\ ret.called
    /\ ret.value
    /\ resolved.some
    /\ Len(loops) = 1
    /\ loops[1].cfg = resolved.cfg
    /\ loops[1].gets >= 1

\* C6: no task ever has more than one request outstanding.
C6_OneOutstanding == \A i \in Tasks : loops[i].inflight <= 1

C6_Witness ==
    \E i \in Tasks : loops[i].gets >= 3 /\ loops[i].inflight = 1

\* C7: for a task with interval_secs >= 1, the GETs started never outnumber
\* the whole intervals elapsed since the task created its timer (none before
\* the timer exists).
C7_OneGetPerInterval ==
    \A i \in Tasks :
        loops[i].cfg.interval_secs >= 1 =>
            IF loops[i].created = NoTime
            THEN loops[i].gets = 0
            ELSE loops[i].gets * loops[i].cfg.interval_secs <= now - loops[i].created

C7_Witness ==
    \E i \in Tasks :
        /\ loops[i].cfg.interval_secs >= 1
        /\ loops[i].gets >= 2
        /\ loops[i].last \in Failures
        /\ loops[i].gets * loops[i].cfg.interval_secs = now - loops[i].created

\* C8: every result of a ping returns the task to Armed; and a failed ping
\* whose next tick lies within the horizon of the clock is followed by
\* another GET (under FairSpec).
C8_FailuresDoNotStop ==
    /\ [][\A i \in Tasks :
            (loops[i].pc = "Pinging" /\ loops'[i].pc # "Pinging") =>
                loops'[i].pc = "Armed" /\ loops'[i].last \in Results]_vars
    /\ \A i \in 1..MaxCalls :
            (/\ i <= Len(loops)
             /\ loops[i].pc = "Armed"
             /\ loops[i].last \in Failures
             /\ loops[i].deadline <= MaxTime)
            ~> (i <= Len(loops) /\ loops[i].pc = "Pinging")

C8_Witness ==
    \E i \in Tasks :
        /\ loops[i].pc = "Pinging"
        /\ loops[i].last \in {"OkNon2xx", "ErrTransport"}
        /\ loops[i].gets >= 2

\* C9: a ping is never in flight for longer than timeout_secs; the step that
\* ends a ping which has reached the timeout records a timeout error, logs a
\* warning and leaves the task Armed.
C9_PingBoundedByTimeout ==
    /\ [](\A i \in Tasks :
            loops[i].pc = "Pinging" => now - loops[i].sentAt <= loops[i].cfg.timeout_secs)
    /\ [][\A i \in Tasks :
            (/\ loops[i].pc = "Pinging"
             /\ now - loops[i].sentAt >= loops[i].cfg.timeout_secs
             /\ loops'[i] # loops[i]) =>
                /\ loops'[i].last = "ErrTimeout"
                /\ loops'[i].log = "warn"
                /\ loops'[i].pc = "Armed"]_vars

C9_Witness ==
    \E i \in Tasks :
        /\ loops[i].cfg.timeout_secs >= 1
        /\ loops[i].last = "ErrTimeout"
        /\ loops[i].pc = "Armed"
        /\ now = loops[i].sentAt + loops[i].cfg.timeout_secs

\* C10: a call that spawns returns in the same instant with the new task not
\* yet run; no step of a task and no passing of time changes the host, the
\* environment or what the host's calls returned; the host is always running.
C10_HostUntouched ==
    /\ [][(HostCall /\ Len(loops') > Len(loops)) =>
            /\ loops' = Append(loops, new_task(loops'[Len(loops')].cfg))
            /\ now' = now
            /\ wire' = wire
            /\ host'.status = "running"]_vars
    /\ [][~HostCall =>
            /\ host' = host
            /\ ret' = ret
            /\ resolved' = resolved
            /\ env' = env]_vars
    /\ [](host.status = "running")

C10_Witness ==
    /\ host.status = "running"
    /\ host.calls >= 1
    /\ \E i \in Tasks : loops[i].pc = "Terminated" /\ loops[i].log = "error"

----------------------------------------------------------------------------
(* Properties of the life of a task                                        *)

Ended == {"Terminated", "Panicked"}

\* C11 as stated: a task ends only in its first step, on a failed client
\* construction (error logged, no tick consumed, no GET); it never panics;
\* and a task that has ended consumes no tick and issues no GET.
C11_OnlyClientFailureEnds ==
    /\ [](\A i \in Tasks :
            loops[i].pc \in Ended =>
                /\ loops[i].pc = "Terminated"
                /\ loops[i].client_timeout = NoTimeout
                /\ loops[i].log = "error"
                /\ loops[i].ticks = 0
                /\ loops[i].gets = 0)
    /\ [][\A i \in Tasks : loops[i].pc \in Ended => loops'[i] = loops[i]]_vars

\* C12 as stated: a task whose interval_secs is 0 stays alive once its
\* client is built: it is waiting for a tick or pinging, never ended.
C12_ZeroIntervalKeepsPinging ==
    \A i \in Tasks :
        (loops[i].cfg.interval_secs = 0 /\ loops[i].client_timeout # NoTimeout) =>
            loops[i].pc \in {"FirstTick", "Armed", "Pinging"}

\* C13 as stated: a GET that is not the first of its task starts at least
\* interval_secs after the task's previous GET started.
C13_GetsAnIntervalApart ==
    [][\A i \in Tasks :
        (loops[i].gets >= 1 /\ loops'[i].gets = loops[i].gets + 1) =>
            loops'[i].sentAt - loops[i].sentAt >= loops[i].cfg.interval_secs]_vars

\* C14: for interval_secs >= 1, the first tick is consumed without a GET, and
\* the first GET is started on the second tick, no earlier than a full
\* interval after the timer was created.
C14_NoGetBeforeFirstInterval ==
    \A i \in Tasks :
        loops[i].cfg.interval_secs >= 1 =>
            /\ loops[i].ticks <= 1 => loops[i].gets = 0
            /\ loops[i].gets >= 1 => now >= loops[i].created + loops[i].cfg.interval_secs
            /\ loops[i].gets = 1 =>
                /\ loops[i].ticks = 2
                /\ loops[i].sentAt >= loops[i].created + loops[i].cfg.interval_secs

C14_Witness ==
    \E i \in Tasks :
        /\ loops[i].cfg.interval_secs = 2
        /\ loops[i].gets = 1
        /\ loops[i].ticks = 2
        /\ loops[i].sentAt = loops[i].created + 2

\* C15: for interval_secs >= 1, as long as no earlier ping of the task has
\* ended after the next tick was due, the k-th GET starts exactly
\* k * interval_secs after the timer was created, whatever the earlier pings
\* lasted and returned.
C15_FixedCadence ==
    \A i \in Tasks :
        (/\ loops[i].cfg.interval_secs >= 1
         /\ loops[i].pc = "Pinging"
         /\ ~loops[i].overran) =>
            loops[i].sentAt = loops[i].created + loops[i].gets * loops[i].cfg.interval_secs

C15_Witness ==
    \E i \in Tasks :
        /\ loops[i].cfg.interval_secs = 2
        /\ loops[i].pc = "Pinging"
        /\ ~loops[i].overran
        /\ loops[i].gets = 2
        /\ loops[i].last \in Failures
        /\ loops[i].sentAt = loops[i].created + 4

\* C16: no step changes the config a task holds, which is the one resolved
\* when it was spawned; the client's timeout and the timer's period are those
\* of that config; every GET goes to its url; and a change of the environment
\* after spawn_from_env returned changes nothing of the task.
C16_ConfigFixedAtSpawn ==
    /\ [][\A i \in Tasks : loops'[i].cfg = loops[i].cfg]_vars
    /\ [][env' # env => (loops' = loops /\ wire' = wire)]_vars
    /\ [](\A i \in Tasks :
            /\ loops[i].cfg = resolved.cfg
            /\ loops[i].gets >= 1 => loops[i].sentTo = loops[i].cfg.url
            /\ loops[i].client_timeout \in {NoTimeout, loops[i].cfg.timeout_secs}
            /\ loops[i].created # NoTime =>
                loops[i].deadline =
                    loops[i].created + loops[i].ticks * loops[i].cfg.interval_secs)

C16_Witness ==
    /\ env[URL_VAR] = NotPresent
    /\ env[INTERVAL_VAR] # OkVar(<<"1">>)
    /\ host.wireAtSetEnv >= 0
    /\ wire > host.wireAtSetEnv
    /\ \E i \in Tasks :
          /\ loops[i].pc = "Pinging"
          /\ loops[i].cfg.interval_secs = 1
          /\ loops[i].sentTo = resolved.cfg.url

\* C17: the value spawn_from_env returns is decided by HEARTBEAT_URL alone
\* (true exactly when it is readable and not blank), it is returned while the
\* new task has not run at all, and nothing a task does later changes it; a
\* task that is Terminated has sent no GET. So true can be followed by a
\* failed client construction and no heartbeat at all.
C17_TrueOnlyMeansSpawned ==
    /\ [][EnvCall =>
            /\ ret'.called
            /\ ret'.value = UrlUsable
            /\ ret'.value =>
                /\ Len(loops') = Len(loops) + 1
                /\ loops'[Len(loops')].pc = "Spawned"
                /\ loops'[Len(loops')].client_timeout = NoTimeout
                /\ loops'[Len(loops')].created = NoTime
                /\ loops'[Len(loops')].gets = 0]_vars
    /\ [][~EnvCall => ret' = ret]_vars
    /\ [](\A i \in Tasks : loops[i].pc = "Terminated" => loops[i].gets = 0)

C17_Witness ==
    /\ ret.called
    /\ ret.value
    /\ host.last = "spawn_from_env"
    /\ Len(loops) = 1
    /\ loops[1].pc = "Terminated"
    /\ loops[1].log = "error"
    /\ loops[1].gets = 0
    /\ wire = 0
    /\ now >= 1

\* C18: every call of spawn, and every call of spawn_from_env with a usable
\* URL, adds one more task whatever tasks already exist and leaves those as
\* they are, so there are as many tasks as calls; a step of one task changes
\* no other task, also when the step ends it; a task that has ended holds no
\* timer the clock waits for; and each task alone has at most one request
\* outstanding.
C18_OneLoopPerCall ==
    /\ [][HostCall =>
            /\ Len(loops') = Len(loops) + 1
            /\ loops'[Len(loops')].pc = "Spawned"
            /\ \A i \in Tasks : loops'[i] = loops[i]]_vars
    /\ [][\A i \in Tasks : \A j \in Tasks :
            (i # j /\ loops'[i] # loops[i]) => loops'[j] = loops[j]]_vars
    /\ [](/\ Len(loops) = host.calls
          /\ \A i \in Tasks :
                /\ loops[i].inflight <= 1
                /\ loops[i].pc \in Ended => ~timer_due(loops[i], now))

C18_Witness ==
    \E i \in Tasks : \E j \in Tasks :
        /\ i # j
        /\ loops[i].inflight = 1
        /\ loops[j].inflight = 1
        /\ loops[i].cfg.url # loops[j].cfg.url
        /\ loops[i].sentAt < loops[j].sentAt
        /\ wire = 2

====
